---- MODULE Spec2Model ----
(***************************************************************************)
(* Shortest paths and routing of graph-visage-path:                        *)
(*   src/src/lib/dijkstra.ts   dijkstra, floyd                             *)
(*   src/src/lib/routing.ts    buildRoutingTables, find*Route              *)
(* The algorithms are operators computed the way the code computes them    *)
(* (same loops, same iteration order, same strict comparisons); the        *)
(* actions apply them to a graph and to ids drawn from bounded sets.       *)
(***************************************************************************)
EXTENDS Integers, Sequences, FiniteSets, TLC

\* ------------------------------------------------------------------ bounds

\* Longest edge list of an enumerated graph.
MaxEdges == 2

\* Edge weights of an enumerated graph are 1..MaxWeight (positive).
MaxWeight == 2

\* Node ids of the enumerated graphs, in graph.nodes order.
NodeIds == <<"A", "B", "C">>

\* An id that is no node of any graph here: the id of a removed node that a
\* start/end selection still holds.
Ghost == "X"

\* ------------------------------------------------------- JavaScript values

\* JavaScript null and undefined, as values distinct from every node id.
Null == "null"
Undefined == "undefined"

\* JavaScript Infinity among the non-negative distances.
Infinity == -1

\* a < b on numbers that may be Infinity.
Lt(a, b) == a # Infinity /\ (b = Infinity \/ a < b)

\* a + b on numbers that may be Infinity.
Add(a, b) == IF a = Infinity \/ b = Infinity THEN Infinity ELSE a + b

\* obj[key] of a JavaScript object: undefined when the key is absent.
Lookup(obj, key) == IF key \in DOMAIN obj THEN obj[key] ELSE Undefined

Range(seq) == {seq[i] : i \in DOMAIN seq}

\* ------------------------------------------------------------------ graphs

\* An Edge (its id plays no part in the algorithms).
Edge(s, t, w) == [source |-> s, target |-> t, weight |-> w]

\* The graph GraphApp starts with (node1..node4 labelled A..D), which is the
\* scenario graph A->B(5), B->C(3), A->C(8), C->D(2).
DefaultGraph ==
  [nodes |-> <<"A", "B", "C", "D">>,
   edges |-> <<Edge("A", "B", 5), Edge("B", "C", 3),
               Edge("A", "C", 8), Edge("C", "D", 2)>>]

\* Every edge over the first n node ids: self-loops and both directions.
EdgesOver(n) ==
  {Edge(NodeIds[i], NodeIds[j], w) : i \in 1..n, j \in 1..n, w \in 1..MaxWeight}

\* ---------------------------------------------------------------- dijkstra

\* The scan for the unvisited node of minimum distance: the Set is iterated in
\* insertion order (the order of graph.nodes) and a node replaces the candidate
\* only when its distance is strictly smaller.
RECURSIVE SelectMin(_, _, _, _, _)
SelectMin(order, unvisited, distances, currentNode, minDistance) ==
  IF order = <<>> THEN currentNode
  ELSE LET nodeId == Head(order) IN
       IF nodeId \in unvisited /\ Lt(distances[nodeId], minDistance)
       THEN SelectMin(Tail(order), unvisited, distances, nodeId, distances[nodeId])
       ELSE SelectMin(Tail(order), unvisited, distances, currentNode, minDistance)

\* Relax without the test newDistance < distances[neighborId]: the last edge
\* relaxed overwrites the distance of its target.
RECURSIVE RelaxOverwrites(_, _, _, _)
RelaxOverwrites(outgoingEdges, currentNode, unvisited, st) ==
  IF outgoingEdges = <<>> THEN st
  ELSE LET edge == Head(outgoingEdges)
           neighborId == edge.target
           newDistance == Add(st.distances[currentNode], edge.weight)
           relaxed ==
             IF neighborId \in unvisited
             THEN [distances |-> [st.distances EXCEPT ![neighborId] = newDistance],
                   previous |-> [st.previous EXCEPT ![neighborId] = currentNode]]
             ELSE st
       IN RelaxOverwrites(Tail(outgoingEdges), currentNode, unvisited, relaxed)

\* The relaxation of the outgoing edges of currentNode, in edge-list order.
RECURSIVE Relax(_, _, _, _)
Relax(outgoingEdges, currentNode, unvisited, st) ==
  IF outgoingEdges = <<>> THEN st
  ELSE LET edge == Head(outgoingEdges)
           neighborId == edge.target
           newDistance == Add(st.distances[currentNode], edge.weight)
           relaxed ==
             IF neighborId \in unvisited /\ Lt(newDistance, st.distances[neighborId])
             THEN [distances |-> [st.distances EXCEPT ![neighborId] = newDistance],
                   previous |-> [st.previous EXCEPT ![neighborId] = currentNode]]
             ELSE st
       IN Relax(Tail(outgoingEdges), currentNode, unvisited, relaxed)

\* graph.edges.filter(edge => edge.source === currentNode)
OutgoingEdges(edges, currentNode) ==
  LET FromCurrent(e) == e.source = currentNode IN SelectSeq(edges, FromCurrent)

\* The main loop: while (unvisited.size > 0) { ... }.
RECURSIVE DijkstraLoop(_, _, _, _)
DijkstraLoop(graph, endId, unvisited, st) ==
  IF unvisited = {} THEN st
  ELSE LET currentNode == SelectMin(graph.nodes, unvisited, st.distances, Null, Infinity) IN
       IF currentNode = Null THEN st            \* no path exists
       ELSE IF currentNode = endId THEN st      \* reached target
       ELSE DijkstraLoop(
              graph, endId, unvisited \ {currentNode},
              Relax(OutgoingEdges(graph.edges, currentNode),
                    currentNode, unvisited \ {currentNode}, st))

\* A call that gives no PathResult: its loop never exits.
Diverges == [returns |-> FALSE, found |-> FALSE, distance |-> 0, path |-> <<>>]

PathResult(found, distance, path) ==
  [returns |-> TRUE, found |-> found, distance |-> distance, path |-> path]

\* ReconstructPath with path.push in place of path.unshift: the path comes out
\* target first.
RECURSIVE ReconstructPathPush(_, _, _, _)
ReconstructPathPush(previous, distance, current, path) ==
  IF current = Null THEN PathResult(TRUE, distance, path)
  ELSE LET following == Lookup(previous, current) IN
       IF following = current THEN Diverges
       ELSE ReconstructPathPush(previous, distance, following, Append(path, current))

\* while (current !== null) { path.unshift(current); current = previous[current]; }
\* previous[x] of an x that is no key is undefined, and undefined !== null: when
\* the body leaves current as it found it, the loop state repeats and the loop
\* never exits.
RECURSIVE ReconstructPath(_, _, _, _)
ReconstructPath(previous, distance, current, path) ==
  IF current = Null THEN PathResult(TRUE, distance, path)
  ELSE LET following == Lookup(previous, current) IN
       IF following = current THEN Diverges
       ELSE ReconstructPath(previous, distance, following, <<current>> \o path)

\* dijkstra reporting an unreachable target as {found:false, distance:Infinity}.
dijkstraInfiniteDistance(graph, startId, endId) ==
  LET nodes == Range(graph.nodes)
      st0 == [distances |-> [nodeId \in nodes |-> IF nodeId = startId THEN 0 ELSE Infinity],
              previous |-> [nodeId \in nodes |-> Null]]
      st == DijkstraLoop(graph, endId, nodes, st0)
  IN IF endId \in nodes /\ st.distances[endId] = Infinity
     THEN PathResult(FALSE, Infinity, <<>>)
     ELSE ReconstructPath(st.previous,
                          IF endId \in nodes THEN st.distances[endId] ELSE Infinity,
                          endId, <<>>)

\* dijkstra taking a target without predecessor for an unreachable one.
dijkstraNoPredecessor(graph, startId, endId) ==
  LET nodes == Range(graph.nodes)
      st0 == [distances |-> [nodeId \in nodes |-> IF nodeId = startId THEN 0 ELSE Infinity],
              previous |-> [nodeId \in nodes |-> Null]]
      st == DijkstraLoop(graph, endId, nodes, st0)
  IN IF endId \in nodes /\ (st.distances[endId] = Infinity \/ st.previous[endId] = Null)
     THEN PathResult(FALSE, 0, <<>>)
     ELSE ReconstructPath(st.previous,
                          IF endId \in nodes THEN st.distances[endId] ELSE Infinity,
                          endId, <<>>)

\* dijkstra(graph, startId, endId): lines 3-13 set up, DijkstraLoop is the main
\* loop, then the path is rebuilt unless distances[endId] === Infinity. For an
\* endId that is no node distances[endId] is undefined, which is not Infinity.
dijkstra(graph, startId, endId) ==
  LET nodes == Range(graph.nodes)
      st0 == [distances |-> [nodeId \in nodes |-> IF nodeId = startId THEN 0 ELSE Infinity],
              previous |-> [nodeId \in nodes |-> Null]]
      st == DijkstraLoop(graph, endId, nodes, st0)
  IN IF endId \in nodes /\ st.distances[endId] = Infinity
     THEN PathResult(FALSE, 0, <<>>)
     ELSE ReconstructPath(st.previous,
                          IF endId \in nodes THEN st.distances[endId] ELSE Infinity,
                          endId, <<>>)

\* ------------------------------------------------------------------- floyd

\* Lines 94-106: distances[i][i] = 0, every other distance Infinity, no next.
FloydEmpty(nodes) ==
  [distances |-> [i \in nodes |-> [j \in nodes |-> IF i = j THEN 0 ELSE Infinity]],
   next |-> [i \in nodes |-> [j \in nodes |-> Null]]]

\* Lines 109-112: every edge, in edge-list order, assigns its weight to the
\* distance of its pair and its target to next.
RECURSIVE FloydEdges(_, _)
FloydEdges(edges, m) ==
  IF edges = <<>> THEN m
  ELSE LET edge == Head(edges) IN
       FloydEdges(Tail(edges),
                  [distances |-> [m.distances EXCEPT ![edge.source][edge.target] = edge.weight],
                   next |-> [m.next EXCEPT ![edge.source][edge.target] = edge.target]])

\* Lines 118-121, the body of the innermost loop.
FloydStep(k, i, j, m) ==
  LET through == Add(m.distances[i][k], m.distances[k][j]) IN
  IF Lt(through, m.distances[i][j])
  THEN [distances |-> [m.distances EXCEPT ![i][j] = through],
        next |-> [m.next EXCEPT ![i][j] = m.next[i][k]]]
  ELSE m

\* Line 117: for (const j of nodes), from the jx-th node on. (The comparison
\* of the matrices before and after an iteration, here and in the two loops
\* around, only makes TLC compute each iteration before it enters the next;
\* both branches pass on the matrices after the iteration.)
RECURSIVE FloydLoopJ(_, _, _, _, _)
FloydLoopJ(nodes, k, i, jx, m) ==
  IF jx > Len(nodes) THEN m
  ELSE LET stepped == FloydStep(k, i, nodes[jx], m) IN
       IF stepped.distances = m.distances
       THEN FloydLoopJ(nodes, k, i, jx + 1, m)
       ELSE FloydLoopJ(nodes, k, i, jx + 1, stepped)

\* Line 116: for (const i of nodes), from the ix-th node on.
RECURSIVE FloydLoopI(_, _, _, _)
FloydLoopI(nodes, k, ix, m) ==
  IF ix > Len(nodes) THEN m
  ELSE LET row == FloydLoopJ(nodes, k, nodes[ix], 1, m) IN
       IF row.distances = m.distances
       THEN FloydLoopI(nodes, k, ix + 1, m)
       ELSE FloydLoopI(nodes, k, ix + 1, row)

\* Line 115: for (const k of nodes), from the kx-th node on; the matrices are
\* updated in place.
RECURSIVE FloydRelax(_, _, _)
FloydRelax(nodes, kx, m) ==
  IF kx > Len(nodes) THEN m
  ELSE LET round == FloydLoopI(nodes, nodes[kx], 1, m) IN
       IF round.distances = m.distances
       THEN FloydRelax(nodes, kx + 1, m)
       ELSE FloydRelax(nodes, kx + 1, round)

\* What reconstructPath gives: a path, null, or no value (its loop never exits).
FloydPath(path) == [kind |-> "path", path |-> path]
FloydNull == [kind |-> "null", path |-> <<>>]
FloydDiverges == [kind |-> "diverges", path |-> <<>>]

\* while (current !== to) { nextNode = next[current][to]; ... }. The loop state
\* is current alone: a nextNode already on the path brings the loop back to a
\* state it was in, and it never exits.
RECURSIVE FloydWalk(_, _, _, _)
FloydWalk(next, to, current, path) ==
  IF current = to THEN FloydPath(path)
  ELSE LET nextNode == next[current][to] IN
       IF nextNode = Null THEN FloydNull
       ELSE IF nextNode \in Range(path) THEN FloydDiverges
       ELSE FloydWalk(next, to, nextNode, Append(path, nextNode))

\* Lines 130-145.
reconstructPath(m, from, to) ==
  IF m.distances[from][to] = Infinity THEN FloydNull
  ELSE IF from = to THEN FloydPath(<<from>>)
  ELSE FloydWalk(m.next, to, from, <<from>>)

\* Lines 147-162: for from, for to over graph.nodes; x counts the iterations
\* of the inner body, from 0. A reconstructPath that never returns leaves floyd
\* without a value.
RECURSIVE FloydPairs(_, _, _, _)
FloydPairs(nodes, m, x, pairs) ==
  LET n == Len(nodes) IN
  IF x >= n * n THEN [returns |-> TRUE, pairs |-> pairs]
  ELSE LET from == nodes[(x \div n) + 1]
           to == nodes[(x % n) + 1]
       IN IF from # to /\ m.distances[from][to] # Infinity
          THEN LET path == reconstructPath(m, from, to) IN
               IF path.kind = "diverges" THEN [returns |-> FALSE, pairs |-> <<>>]
               ELSE IF path.kind = "path"
               THEN FloydPairs(nodes, m, x + 1,
                      Append(pairs, [from |-> from, to |-> to,
                                     distance |-> m.distances[from][to],
                                     path |-> path.path]))
               ELSE FloydPairs(nodes, m, x + 1, pairs)
          ELSE FloydPairs(nodes, m, x + 1, pairs)

\* The matrices after initialisation (lines 89-112).
FloydInit(graph) == FloydEdges(graph.edges, FloydEmpty(Range(graph.nodes)))

floyd(graph) ==
  LET m == FloydRelax(graph.nodes, 1, FloydInit(graph))
      all == FloydPairs(graph.nodes, m, 0, <<>>)
  IN [returns |-> all.returns, distances |-> m.distances, next |-> m.next,
      pairs |-> all.pairs]

\* ----------------------------------------------------------------- routing

\* TableEntries taking the first node of the path (the source) as next hop.
RECURSIVE TableEntriesFirstNode(_, _, _)
TableEntriesFirstNode(graph, sourceId, dests) ==
  IF dests = <<>> THEN <<>>
  ELSE LET destId == Head(dests)
           others == TableEntriesFirstNode(graph, sourceId, Tail(dests))
       IN IF destId = sourceId THEN others
          ELSE LET found == dijkstra(graph, sourceId, destId) IN
               IF found.found /\ Len(found.path) > 1
               THEN <<[destination |-> destId,
                       nextHop |-> found.path[1],
                       distance |-> found.distance]>> \o others
               ELSE others

\* The entries of sourceId: graph.nodes.filter(dest !== source).map(...)
\* .filter(entry !== null), over the destinations dests in graph.nodes order.
RECURSIVE TableEntries(_, _, _)
TableEntries(graph, sourceId, dests) ==
  IF dests = <<>> THEN <<>>
  ELSE LET destId == Head(dests)
           others == TableEntries(graph, sourceId, Tail(dests))
       IN IF destId = sourceId THEN others
          ELSE LET found == dijkstra(graph, sourceId, destId) IN
               IF found.found /\ Len(found.path) > 1
               THEN <<[destination |-> destId,
                       nextHop |-> found.path[2],      \* result.path[1], 0-based
                       distance |-> found.distance]>> \o others
               ELSE others

buildRoutingTables(graph) ==
  [sourceId \in Range(graph.nodes) |-> TableEntries(graph, sourceId, graph.nodes)]

\* What a route function gives: a node sequence, or no value when the
\* dijkstra call inside it never returns.
Route(route) == [returns |-> TRUE, route |-> route]
RouteDiverges == [returns |-> FALSE, route |-> <<>>]

findVirtualCircuitRoute(graph, sourceId, destinationId) ==
  LET found == dijkstra(graph, sourceId, destinationId) IN
  IF ~found.returns THEN RouteDiverges
  ELSE Route(IF found.found THEN found.path ELSE <<>>)

\* entries.filter(e => e.destination === destinationId); its first element is
\* entries.find(...), which is undefined when the list is empty.
EntriesTo(entries, destinationId) ==
  LET ToDestination(e) == e.destination = destinationId
  IN SelectSeq(entries, ToDestination)

\* findDatagramRoute following the first entry of the current node instead of
\* its entry for the destination.
RECURSIVE findDatagramRouteFirstEntry(_, _, _, _)
findDatagramRouteFirstEntry(routingTable, currentNodeId, destinationId, visitedNodes) ==
  IF currentNodeId = destinationId THEN <<currentNodeId>>
  ELSE IF currentNodeId \in visitedNodes THEN <<>>
  ELSE IF currentNodeId \notin DOMAIN routingTable THEN <<>>
  ELSE LET matching == routingTable[currentNodeId] IN
       IF matching = <<>> THEN <<>>
       ELSE LET entry == Head(matching)
                nextRoute == findDatagramRouteFirstEntry(routingTable, entry.nextHop,
                               destinationId, visitedNodes \cup {currentNodeId})
            IN IF nextRoute = <<>> THEN <<>> ELSE <<currentNodeId>> \o nextRoute

\* findDatagramRoute; visitedNodes is the one Set the recursion shares, and
\* the recursion is linear, so each call sees the nodes visited before it.
RECURSIVE findDatagramRoute(_, _, _, _)
findDatagramRoute(routingTable, currentNodeId, destinationId, visitedNodes) ==
  IF currentNodeId = destinationId THEN <<currentNodeId>>
  ELSE IF currentNodeId \in visitedNodes THEN <<>>
  ELSE IF currentNodeId \notin DOMAIN routingTable THEN <<>>
  ELSE LET matching == EntriesTo(routingTable[currentNodeId], destinationId) IN
       IF matching = <<>> THEN <<>>
       ELSE LET entry == Head(matching)
                nextRoute == findDatagramRoute(routingTable, entry.nextHop, destinationId,
                                               visitedNodes \cup {currentNodeId})
            IN IF nextRoute = <<>> THEN <<>> ELSE <<currentNodeId>> \o nextRoute

\* Neighbors without the filter on visited nodes.
RECURSIVE NeighborsRevisit(_, _, _)
NeighborsRevisit(edges, currentNode, visited) ==
  IF edges = <<>> THEN <<>>
  ELSE LET e == Head(edges)
           others == NeighborsRevisit(Tail(edges), currentNode, visited)
       IN IF e.source = currentNode \/ e.target = currentNode
          THEN <<IF e.source = currentNode THEN e.target ELSE e.source>> \o others
          ELSE others

\* graph.edges.filter(e => e.source === currentNode || e.target === currentNode)
\* .map(e => e.source === currentNode ? e.target : e.source)
\* .filter(n => !visited.has(n)): the other ends of the incident edges, in
\* edge-list order, one element per edge.
RECURSIVE Neighbors(_, _, _)
Neighbors(edges, currentNode, visited) ==
  IF edges = <<>> THEN <<>>
  ELSE LET e == Head(edges)
           others == Neighbors(Tail(edges), currentNode, visited)
       IN IF e.source = currentNode \/ e.target = currentNode
          THEN LET n == IF e.source = currentNode THEN e.target ELSE e.source IN
               IF n \in visited THEN others ELSE <<n>> \o others
          ELSE others

\* findRandomRoute, as the set of the outcomes Math.random() can produce. An
\* outcome is the returned route together with visitedNodes as the call leaves
\* it (a Set keeps insertion order, so it is a sequence here).
RECURSIVE findRandomRoute(_, _, _, _)
findRandomRoute(graph, currentNodeId, destinationId, visitedNodes) ==
  IF currentNodeId = destinationId
  THEN {[route |-> <<currentNodeId>>, visitedNodes |-> visitedNodes]}
  ELSE IF currentNodeId \in Range(visitedNodes)
  THEN {[route |-> <<>>, visitedNodes |-> visitedNodes]}
  ELSE LET visited == Append(visitedNodes, currentNodeId)
           neighbors == Neighbors(graph.edges, currentNodeId, Range(visited))
       IN IF neighbors = <<>>
          THEN {[route |-> <<>>, visitedNodes |-> visited]}
          ELSE UNION {
                 {[route |-> IF nextRoute.route = <<>> THEN <<>>
                             ELSE <<currentNodeId>> \o nextRoute.route,
                   visitedNodes |-> nextRoute.visitedNodes] :
                    nextRoute \in findRandomRoute(graph, neighbors[x],
                                                  destinationId, visited)} :
                 x \in DOMAIN neighbors}

\* maxHops when the caller passes none.
DefaultMaxHops == 10

\* findFloodingRoutes.flood: the paths pushed to allPaths by flood(currentPath,
\* visited, hops), in the order of the pushes. FloodEach is the
\* neighbors.forEach of it.
RECURSIVE flood(_, _, _, _, _, _)
RECURSIVE FloodEach(_, _, _, _, _, _, _)
flood(graph, destinationId, maxHops, currentPath, visited, hops) ==
  LET currentNode == currentPath[Len(currentPath)] IN
  IF currentNode = destinationId THEN <<currentPath>>
  ELSE IF hops >= maxHops THEN <<>>
  ELSE FloodEach(graph, destinationId, maxHops, currentPath, visited, hops,
                 Neighbors(graph.edges, currentNode, visited))

FloodEach(graph, destinationId, maxHops, currentPath, visited, hops, neighbors) ==
  IF neighbors = <<>> THEN <<>>
  ELSE LET neighbor == Head(neighbors) IN
       flood(graph, destinationId, maxHops, Append(currentPath, neighbor),
             visited \cup {neighbor}, hops + 1)
         \o FloodEach(graph, destinationId, maxHops, currentPath, visited, hops,
                      Tail(neighbors))

\* findFloodingRoutes cutting a branch one hop too late.
findFloodingRoutesLate(graph, sourceId, destinationId, maxHops) ==
  flood(graph, destinationId, maxHops + 1, <<sourceId>>, {sourceId}, 0)

findFloodingRoutes(graph, sourceId, destinationId, maxHops) ==
  flood(graph, destinationId, maxHops, <<sourceId>>, {sourceId}, 0)

findFixedRoute(graph, sourceId, destinationId) ==
  LET found == dijkstra(graph, sourceId, destinationId) IN
  IF ~found.returns THEN RouteDiverges
  ELSE Route(IF found.found THEN found.path ELSE <<>>)

findAdaptiveRoute(graph, routingTable, sourceId, destinationId) ==
  findDatagramRoute(routingTable, sourceId, destinationId, {})

findExperienceRoute(routingTable, sourceId, destinationId) ==
  findDatagramRoute(routingTable, sourceId, destinationId, {})

\* ------------------------------------------------------------------- state

VARIABLES graph, op, args, result

\* PacketRouting's state: routingTable, packets, transmissionHistory and
\* isAnimating are its useState cells, now is the clock Date.now() reads (ms),
\* tick counts the interval callbacks applied since the batch was started,
\* highlightedEdges is the useState cell of that name, a set of <<from, to>>.
VARIABLES routingTable, packets, transmissionHistory, isAnimating, now, tick,
          highlightedEdges

libVars == <<graph, op, args, result>>

simVars == <<routingTable, packets, transmissionHistory, isAnimating, now, tick,
            highlightedEdges>>

vars == <<graph, op, args, result, routingTable, packets, transmissionHistory,
          isAnimating, now, tick, highlightedEdges>>

\* PacketRouting as it is mounted, once its effect has built the routing
\* table of the graph: no packets, no history, not animating.
SimIdle ==
  /\ routingTable = buildRoutingTables(graph)
  /\ packets = <<>>
  /\ transmissionHistory = <<>>
  /\ isAnimating = FALSE
  /\ now = 0
  /\ tick = 0
  /\ highlightedEdges = {}

\* The ids a caller can pass: the nodes of the graph and a removed node's id.
Ids == Range(graph.nodes) \cup {Ghost}

\* The graph is the one GraphApp starts with, or any graph over a prefix of
\* NodeIds (the empty graph too): unique node ids, edges between nodes of the
\* graph, positive weights, parallel edges and self-loops allowed, the edge
\* list in every order.
Init ==
  /\ \/ graph = DefaultGraph
     \/ \E n \in 0..Len(NodeIds) : \E k \in 0..MaxEdges : \E es \in [1..k -> EdgesOver(n)] :
          graph = [nodes |-> SubSeq(NodeIds, 1, n), edges |-> es]
  /\ op = "none"
  /\ args = <<>>
  /\ result = <<>>
  /\ SimIdle

\* dijkstra(graph, startId, endId)
Dijkstra ==
  /\ op = "none"
  /\ \E startId \in Ids, endId \in Ids :
       /\ op' = "dijkstra"
       /\ args' = <<startId, endId>>
       /\ result' = dijkstra(graph, startId, endId)
  /\ UNCHANGED <<graph, simVars>>

\* floyd(graph)
Floyd ==
  /\ op = "none"
  /\ op' = "floyd"
  /\ args' = <<>>
  /\ result' = floyd(graph)
  /\ UNCHANGED <<graph, simVars>>

\* buildRoutingTables(graph) as a call that reverses graph.edges in place.
BuildRoutingTablesReversesEdges ==
  /\ op \in {"none", "buildRoutingTables"}
  /\ op' = IF op = "none" THEN "buildRoutingTables" ELSE "buildRoutingTables twice"
  /\ args' = <<>>
  /\ graph' = [graph EXCEPT !.edges = [x \in DOMAIN graph.edges |->
                                         graph.edges[Len(graph.edges) + 1 - x]]]
  /\ result' = buildRoutingTables(graph')
  /\ UNCHANGED simVars

\* buildRoutingTables(graph), called once or a second time after the first
\* call; it reads graph.nodes and graph.edges and writes neither.
BuildRoutingTables ==
  /\ op \in {"none", "buildRoutingTables"}
  /\ op' = IF op = "none" THEN "buildRoutingTables" ELSE "buildRoutingTables twice"
  /\ args' = <<>>
  /\ result' = buildRoutingTables(graph)
  /\ UNCHANGED <<graph, simVars>>

\* findVirtualCircuitRoute(graph, sourceId, destinationId)
VirtualCircuit ==
  /\ op = "none"
  /\ \E sourceId \in Ids, destinationId \in Ids :
       /\ op' = "virtual-circuit"
       /\ args' = <<sourceId, destinationId>>
       /\ result' = findVirtualCircuitRoute(graph, sourceId, destinationId)
  /\ UNCHANGED <<graph, simVars>>

\* findDatagramRoute(buildRoutingTables(graph), sourceId, destinationId)
Datagram ==
  /\ op = "none"
  /\ \E sourceId \in Ids, destinationId \in Ids :
       /\ op' = "datagram"
       /\ args' = <<sourceId, destinationId>>
       /\ result' = Route(findDatagramRoute(buildRoutingTables(graph),
                                            sourceId, destinationId, {}))
  /\ UNCHANGED <<graph, simVars>>

Next == Dijkstra \/ Floyd \/ BuildRoutingTables \/ VirtualCircuit \/ Datagram

Spec == Init /\ [][Next]_vars

\* --------------------------------------------------------- route selection
\* The route functions as PacketRouting.handleStartTransmission calls them:
\* source and destination are non-empty and different.

\* Largest hop bound below the default that flooding is called with.
MaxHops == 2

\* Every table with at most one entry per node of nodes, the entry's
\* destination and next hop being any id: tables that are no shortest-path
\* tables, with next-hop cycles and with hops to ids that have no entry list.
ArbitraryTables(nodes) ==
  LET ids == Range(nodes) \cup {Ghost}
      lists == {<<>>} \cup {<<[destination |-> d, nextHop |-> h, distance |-> 1]>> :
                              d \in ids, h \in ids}
  IN [Range(nodes) -> lists]

\* The routing tables the table-driven functions are applied to: the table
\* built from the graph and, since these functions never read the graph, the
\* arbitrary tables once, over the graphs without edges.
RoutingTables ==
  {buildRoutingTables(graph)}
    \cup (IF graph.edges = <<>> THEN ArbitraryTables(graph.nodes) ELSE {})

\* findFixedRoute(graph, sourceNodeId, destinationNodeId)
Fixed ==
  /\ op = "none"
  /\ \E sourceId \in Ids, destinationId \in Ids :
       /\ sourceId # destinationId
       /\ op' = "fixed"
       /\ args' = <<sourceId, destinationId>>
       /\ result' = findFixedRoute(graph, sourceId, destinationId)
  /\ UNCHANGED <<graph, simVars>>

\* findAdaptiveRoute(graph, routingTable, sourceNodeId, destinationNodeId)
Adaptive ==
  /\ op = "none"
  /\ \E sourceId \in Ids, destinationId \in Ids, table \in RoutingTables :
       /\ sourceId # destinationId
       /\ op' = "adaptive"
       /\ args' = <<sourceId, destinationId, table>>
       /\ result' = Route(findAdaptiveRoute(graph, table, sourceId, destinationId))
  /\ UNCHANGED <<graph, simVars>>

\* findExperienceRoute(routingTable, sourceNodeId, destinationNodeId)
Experience ==
  /\ op = "none"
  /\ \E sourceId \in Ids, destinationId \in Ids, table \in RoutingTables :
       /\ sourceId # destinationId
       /\ op' = "experience"
       /\ args' = <<sourceId, destinationId, table>>
       /\ result' = Route(findExperienceRoute(table, sourceId, destinationId))
  /\ UNCHANGED <<graph, simVars>>

\* findRandomRoute(graph, sourceNodeId, destinationNodeId), one outcome of it
Random ==
  /\ op = "none"
  /\ \E sourceId \in Ids, destinationId \in Ids :
       /\ sourceId # destinationId
       /\ \E outcome \in findRandomRoute(graph, sourceId, destinationId, <<>>) :
            /\ op' = "random"
            /\ args' = <<sourceId, destinationId>>
            /\ result' = [returns |-> TRUE, route |-> outcome.route,
                          visitedNodes |-> outcome.visitedNodes]
  /\ UNCHANGED <<graph, simVars>>

\* findFloodingRoutes(graph, sourceNodeId, destinationNodeId, maxHops)
Flooding ==
  /\ op = "none"
  /\ \E sourceId \in Ids, destinationId \in Ids,
        maxHops \in (0..MaxHops) \cup {DefaultMaxHops} :
       /\ sourceId # destinationId
       /\ op' = "flooding"
       /\ args' = <<sourceId, destinationId, maxHops>>
       /\ result' = [returns |-> TRUE,
                     routes |-> findFloodingRoutes(graph, sourceId, destinationId, maxHops)]
  /\ UNCHANGED <<graph, simVars>>

RouteNext ==
  VirtualCircuit \/ Datagram \/ Fixed \/ Adaptive \/ Experience \/ Random \/ Flooding

RouteSpec == Init /\ [][RouteNext]_vars

\* ----------------------------------------------------- packet transmission
\* PacketRouting: handleStartTransmission, the animation interval, pause,
\* resume and reset.

\* progress is a JavaScript number, an IEEE 754 double. A double d with
\* 0 <= d < 2 is held as the integer d * 2^56 in two limbs of 28 bits,
\* [hi, lo] standing for hi * 2^28 + lo; every double of this range with
\* d = 0 or d >= 2^-4 is such an integer.
Limb == 2^28

Double(hi, lo) == [hi |-> hi, lo |-> lo]

Zero == Double(0, 0)

One == Double(Limb, 0)

\* The literal 0.1, the double 0x1.999999999999ap-4 = 7205759403792794 * 2^-56.
Tenth == Double(26843545, 161061274)

\* The spacing of the doubles around a value with high limb hi: 2^-52 from 1
\* on, 2^-53 from 1/2 on, ..., in units of 2^-56.
Ulp(hi) ==
  IF hi >= Limb THEN 16
  ELSE IF hi >= Limb \div 2 THEN 8
  ELSE IF hi >= Limb \div 4 THEN 4
  ELSE IF hi >= Limb \div 8 THEN 2
  ELSE 1

\* a + b of doubles: the exact sum rounded to the nearest double, ties to the
\* even significand.
DoubleAdd(a, b) ==
  LET lows == a.lo + b.lo
      hi == a.hi + b.hi + (lows \div Limb)
      lo == lows % Limb
      ulp == Ulp(hi)
      rest == lo % ulp
      down == lo - rest
      roundsUp == \/ 2 * rest > ulp
                  \/ 2 * rest = ulp /\ (lo \div ulp) % 2 = 1
  IN IF ~roundsUp THEN Double(hi, down)
     ELSE IF down + ulp >= Limb THEN Double(hi + 1, down + ulp - Limb)
     ELSE Double(hi, down + ulp)

\* a >= b of doubles
AtLeast(a, b) == a.hi > b.hi \/ (a.hi = b.hi /\ a.lo >= b.lo)

\* setInterval(..., 100)
TickMs == 100

\* startTime: Date.now() + idx * 500
StaggerMs == 500

\* useState<string>("1024"), the packet size the form starts with
DefaultPacketSize == 1024

\* Largest number of packets asked for in one batch.
MaxPackets == 2

\* Most records the history has when a further batch is started.
MaxHistory == 3

\* Latest clock value at which a batch is started.
MaxStart == 100

\* Latest clock value reached by time passing while no interval runs.
MaxTime == 500

\* ((endTime - packet.startTime) / 1000).toFixed(1), in tenths of a second
ToFixed1(ms) == (ms + 50) \div 100

\* The Packet of a new batch; routeIndex counts from 0 as in the source, so it
\* references route[routeIndex + 1] here.
NewPacket(number, sourceId, destinationId, size, route, startTime) ==
  [number |-> number, sourceId |-> sourceId, destinationId |-> destinationId,
   size |-> size, currentNodeId |-> sourceId, route |-> route, routeIndex |-> 0,
   status |-> "waiting", progress |-> Zero, startTime |-> startTime,
   endTime |-> Undefined]

\* TickPacket without the return for a delivered packet.
TickPacketNoTerminal(packet, clock) ==
  IF clock < packet.startTime THEN packet
  ELSE LET newProgress == DoubleAdd(packet.progress, Tenth) IN
       IF AtLeast(newProgress, One)
       THEN LET nextIndex == packet.routeIndex + 1 IN
            IF nextIndex >= Len(packet.route)
            THEN [packet EXCEPT !.status = "delivered", !.endTime = clock,
                                !.progress = One]
            ELSE [packet EXCEPT !.currentNodeId = packet.route[nextIndex + 1],
                                !.routeIndex = nextIndex,
                                !.status = "transmitting",
                                !.progress = Zero]
       ELSE [packet EXCEPT !.progress = newProgress, !.status = "transmitting"]

\* TickPacket keeping the progress it reached when it moves to the next hop.
TickPacketKeepsProgress(packet, clock) ==
  IF packet.status = "delivered" THEN packet
  ELSE IF clock < packet.startTime THEN packet
  ELSE LET newProgress == DoubleAdd(packet.progress, Tenth) IN
       IF AtLeast(newProgress, One)
       THEN LET nextIndex == packet.routeIndex + 1 IN
            IF nextIndex >= Len(packet.route)
            THEN [packet EXCEPT !.status = "delivered", !.endTime = clock,
                                !.progress = One]
            ELSE [packet EXCEPT !.currentNodeId = packet.route[nextIndex + 1],
                                !.routeIndex = nextIndex,
                                !.status = "transmitting"]
       ELSE [packet EXCEPT !.progress = newProgress, !.status = "transmitting"]

\* TickPacket without the wait for startTime.
TickPacketEager(packet, clock) ==
  IF packet.status = "delivered" THEN packet
  ELSE LET newProgress == DoubleAdd(packet.progress, Tenth) IN
       IF AtLeast(newProgress, One)
       THEN LET nextIndex == packet.routeIndex + 1 IN
            IF nextIndex >= Len(packet.route)
            THEN [packet EXCEPT !.status = "delivered", !.endTime = clock,
                                !.progress = One]
            ELSE [packet EXCEPT !.currentNodeId = packet.route[nextIndex + 1],
                                !.routeIndex = nextIndex,
                                !.status = "transmitting",
                                !.progress = Zero]
       ELSE [packet EXCEPT !.progress = newProgress, !.status = "transmitting"]

\* TickPacket delivering without the clamp of progress to 1.
TickPacketNoClamp(packet, clock) ==
  IF packet.status = "delivered" THEN packet
  ELSE IF clock < packet.startTime THEN packet
  ELSE LET newProgress == DoubleAdd(packet.progress, Tenth) IN
       IF AtLeast(newProgress, One)
       THEN LET nextIndex == packet.routeIndex + 1 IN
            IF nextIndex >= Len(packet.route)
            THEN [packet EXCEPT !.status = "delivered", !.endTime = clock,
                                !.progress = newProgress]
            ELSE [packet EXCEPT !.currentNodeId = packet.route[nextIndex + 1],
                                !.routeIndex = nextIndex,
                                !.status = "transmitting",
                                !.progress = Zero]
       ELSE [packet EXCEPT !.progress = newProgress, !.status = "transmitting"]

\* The callback of prevPackets.map in the interval, Date.now() reading clock.
TickPacket(packet, clock) ==
  IF packet.status = "delivered" THEN packet
  ELSE IF clock < packet.startTime THEN packet
  ELSE LET newProgress == DoubleAdd(packet.progress, Tenth) IN
       IF AtLeast(newProgress, One)
       THEN LET nextIndex == packet.routeIndex + 1 IN
            IF nextIndex >= Len(packet.route)
            THEN [packet EXCEPT !.status = "delivered", !.endTime = clock,
                                !.progress = One]
            ELSE [packet EXCEPT !.currentNodeId = packet.route[nextIndex + 1],
                                !.routeIndex = nextIndex,
                                !.status = "transmitting",
                                !.progress = Zero]
       ELSE [packet EXCEPT !.progress = newProgress, !.status = "transmitting"]

\* The record setTransmissionHistory appends for a packet delivered at clock;
\* the model's node ids are their labels.
TransmissionRecord(packet, clock) ==
  [packetNumber |-> packet.number, path |-> packet.route, size |-> packet.size,
   startTime |-> packet.startTime, endTime |-> clock,
   duration |-> ToFixed1(clock - packet.startTime)]

\* The records the map appends, in packet order.
RECURSIVE NewRecords(_, _)
NewRecords(prevPackets, clock) ==
  IF prevPackets = <<>> THEN <<>>
  ELSE LET packet == Head(prevPackets)
           others == NewRecords(Tail(prevPackets), clock)
       IN IF packet.status # "delivered"
             /\ TickPacket(packet, clock).status = "delivered"
          THEN <<TransmissionRecord(packet, clock)>> \o others
          ELSE others

\* AllDelivered satisfied by one delivered packet.
SomeDelivered(ps) == \E x \in DOMAIN ps : ps[x].status = "delivered"

AllDelivered(ps) == \A x \in DOMAIN ps : ps[x].status = "delivered"

\* The switch on routingAlgorithm: the routes it can leave in route (one
\* element of the list) or routes (the whole list, flooding only); no element
\* when the dijkstra call inside never returns.
SwitchRoutes(routingAlgorithm, sourceId, destinationId) ==
  CASE routingAlgorithm = "random" ->
         {<<outcome.route>> :
            outcome \in findRandomRoute(graph, sourceId, destinationId, <<>>)}
    [] routingAlgorithm = "flooding" ->
         {findFloodingRoutes(graph, sourceId, destinationId, DefaultMaxHops)}
    [] routingAlgorithm = "fixed" ->
         LET found == findFixedRoute(graph, sourceId, destinationId) IN
         IF found.returns THEN {<<found.route>>} ELSE {}
    [] routingAlgorithm = "adaptive" ->
         {<<findAdaptiveRoute(graph, routingTable, sourceId, destinationId)>>}
    [] routingAlgorithm = "experience" ->
         {<<findExperienceRoute(routingTable, sourceId, destinationId)>>}

\* "Apply transport method": the route of a non-flooding batch.
TransportRoute(transportMethod, sourceId, destinationId) ==
  IF transportMethod = "virtual-circuit"
  THEN findVirtualCircuitRoute(graph, sourceId, destinationId)
  ELSE Route(findDatagramRoute(routingTable, sourceId, destinationId, {}))

\* The packets of a flooding batch: one per route, all starting at once.
FloodingPackets(routes, sourceId, destinationId, numPackets) ==
  LET count == IF numPackets < Len(routes) THEN numPackets ELSE Len(routes)
  IN [idx \in 1..count |->
        NewPacket(Len(packets) + idx, sourceId, destinationId,
                  DefaultPacketSize, routes[idx], now)]

\* RoutePackets with the stagger reversed: the last packet starts first.
RoutePacketsReverseStagger(route, sourceId, destinationId, numPackets) ==
  [idx \in 1..numPackets |->
     NewPacket(Len(packets) + idx, sourceId, destinationId,
               DefaultPacketSize, route, now + (numPackets - idx) * StaggerMs)]

\* The packets of a batch on one route, StaggerMs apart.
RoutePackets(route, sourceId, destinationId, numPackets) ==
  [idx \in 1..numPackets |->
     NewPacket(Len(packets) + idx, sourceId, destinationId,
               DefaultPacketSize, route, now + (idx - 1) * StaggerMs)]

\* "Apply transport method" left out: the route of the switch is kept.
ApplyTransportSkipped(routingAlgorithm, transportMethod, route, viaCircuit, viaDatagram) ==
  Route(route)

\* "Apply transport method": a non-empty route of a switch case other than
\* flooding gives way to the route of the transport method, viaCircuit or
\* viaDatagram.
ApplyTransport(routingAlgorithm, transportMethod, route, viaCircuit, viaDatagram) ==
  IF routingAlgorithm # "flooding" /\ route # <<>>
  THEN IF transportMethod = "virtual-circuit" THEN viaCircuit ELSE viaDatagram
  ELSE Route(route)

RoutingAlgorithms == {"random", "flooding", "fixed", "adaptive", "experience"}

TransportMethods == {"virtual-circuit", "datagram"}

\* No call under examination: what the steps after a call leave in op, args
\* and result.
NoCall ==
  /\ op' = "none"
  /\ args' = <<>>
  /\ result' = <<>>

\* handleStartTransmission with a valid size and count, source and
\* destination taken from the nodes the form offers; the button is disabled
\* while isAnimating. args holds the form's values and result what the toast
\* says the call ends with.
StartTransmission ==
  /\ ~isAnimating
  /\ \E sourceId \in Range(graph.nodes), destinationId \in Range(graph.nodes) :
       /\ sourceId # destinationId
       /\ LET viaCircuit == TransportRoute("virtual-circuit", sourceId, destinationId)
              viaDatagram == TransportRoute("datagram", sourceId, destinationId)
          IN \E routingAlgorithm \in RoutingAlgorithms :
               \E routes \in SwitchRoutes(routingAlgorithm, sourceId, destinationId) :
                 \E transportMethod \in TransportMethods, numPackets \in 1..MaxPackets :
                   LET route == ApplyTransport(
                                  routingAlgorithm, transportMethod,
                                  IF routingAlgorithm = "flooding" THEN <<>> ELSE routes[1],
                                  viaCircuit, viaDatagram)
                   IN /\ route.returns
                      /\ op' = "handleStartTransmission"
                      /\ args' = <<sourceId, destinationId, routingAlgorithm,
                                   transportMethod, numPackets>>
                      /\ IF routingAlgorithm = "flooding" /\ routes # <<>>
                         THEN /\ packets' = FloodingPackets(routes, sourceId,
                                                            destinationId, numPackets)
                              /\ isAnimating' = TRUE
                              /\ tick' = 0
                              /\ result' = "Transmission Started"
                         ELSE IF route.route = <<>>
                         THEN /\ result' = "No route found between selected nodes"
                              /\ UNCHANGED <<packets, isAnimating, tick>>
                         ELSE /\ packets' = RoutePackets(route.route, sourceId,
                                                         destinationId, numPackets)
                              /\ isAnimating' = TRUE
                              /\ tick' = 0
                              /\ result' = "Transmission Started"
  /\ UNCHANGED <<graph, routingTable, transmissionHistory, now, highlightedEdges>>

\* The edges under a transmitting packet that is not on its last node, each in
\* both directions.
HighlightedEdges(updatedPackets) ==
  UNION {{<<p.route[p.routeIndex + 1], p.route[p.routeIndex + 2]>>,
          <<p.route[p.routeIndex + 2], p.route[p.routeIndex + 1]>>} :
           p \in {updatedPackets[x] : x \in
                    {y \in DOMAIN updatedPackets :
                       /\ updatedPackets[y].status = "transmitting"
                       /\ updatedPackets[y].routeIndex
                            < Len(updatedPackets[y].route) - 1}}}

\* One callback of the interval, which exists while isAnimating with packets;
\* it runs TickMs after the step before it.
Tick ==
  /\ isAnimating
  /\ packets # <<>>
  /\ now' = now + TickMs
  /\ tick' = tick + 1
  /\ packets' = [x \in DOMAIN packets |-> TickPacket(packets[x], now')]
  /\ transmissionHistory' = transmissionHistory \o NewRecords(packets, now')
  /\ isAnimating' = ~AllDelivered(packets')
  /\ highlightedEdges' = HighlightedEdges(packets')
  /\ NoCall
  /\ UNCHANGED <<graph, routingTable>>

\* handlePause; the button is shown while isAnimating
Pause ==
  /\ isAnimating
  /\ isAnimating' = FALSE
  /\ NoCall
  /\ UNCHANGED <<graph, routingTable, packets, transmissionHistory, now, tick,
                 highlightedEdges>>

\* handleResume without its test for an undelivered packet, the button shown
\* whenever the simulation is not running.
ResumeUnchecked ==
  /\ ~isAnimating
  /\ isAnimating' = TRUE
  /\ NoCall
  /\ UNCHANGED <<graph, routingTable, packets, transmissionHistory, now, tick,
                 highlightedEdges>>

\* handleResume; the button is shown when paused with an undelivered packet
Resume ==
  /\ ~isAnimating
  /\ packets # <<>>
  /\ \E x \in DOMAIN packets : packets[x].status # "delivered"
  /\ isAnimating' = TRUE
  /\ NoCall
  /\ UNCHANGED <<graph, routingTable, packets, transmissionHistory, now, tick,
                 highlightedEdges>>

\* handleReset
Reset ==
  /\ packets' = <<>>
  /\ isAnimating' = FALSE
  /\ highlightedEdges' = {}
  /\ transmissionHistory' = <<>>
  /\ tick' = 0
  /\ NoCall
  /\ UNCHANGED <<graph, routingTable, now>>

\* Time passes while no interval runs.
Idle ==
  /\ ~isAnimating
  /\ now < MaxTime
  /\ now' = now + TickMs
  /\ NoCall
  /\ UNCHANGED <<graph, routingTable, packets, transmissionHistory, isAnimating,
                 tick, highlightedEdges>>

SimInit ==
  /\ graph = DefaultGraph
  /\ op = "none"
  /\ args = <<>>
  /\ result = <<>>
  /\ SimIdle

\* The simulator on the default graph, batches started in the first MaxStart
\* milliseconds; a call of handleStartTransmission is followed by another
\* step before the next call is examined.
SimNext ==
  \/ op = "none" /\ now <= MaxStart /\ StartTransmission
  \/ Tick
  \/ Pause
  \/ Resume
  \/ Reset
  \/ Idle

SimSpec == SimInit /\ [][SimNext]_vars

\* The simulation left to run: no pause and no reset, the interval firing as
\* long as it exists.
LiveNext ==
  \/ op = "none" /\ now <= MaxStart /\ StartTransmission
  \/ Tick
  \/ Idle

LiveSpec == SimInit /\ [][LiveNext]_vars /\ WF_vars(Tick)

\* Batches started one after another and left to run, a batch being started
\* while the history has fewer than MaxHistory records.
BatchNext ==
  \/ op = "none" /\ Len(transmissionHistory) < MaxHistory /\ StartTransmission
  \/ Tick

BatchSpec == SimInit /\ [][BatchNext]_vars

\* handleStartTransmission on every graph, from the state after mounting.
StartSpec == Init /\ [][op = "none" /\ StartTransmission]_vars

\* ------------------------------------------------------- reference notions
\* What the claims speak of, defined on the graph alone and not through the
\* algorithms under check.

Nodes == Range(graph.nodes)

EdgeSet == {graph.edges[i] : i \in DOMAIN graph.edges}

HasEdge(u, v) == \E e \in EdgeSet : e.source = u /\ e.target = v

SetMin(S) == CHOOSE x \in S : \A y \in S : x <= y

\* The weight of the lightest edge from u to v.
MinWeight(u, v) == SetMin({e.weight : e \in {f \in EdgeSet : f.source = u /\ f.target = v}})

\* The nodes some directed path (of any length, the empty one too) leads to
\* from a node of S.
RECURSIVE ReachFrom(_)
ReachFrom(S) ==
  LET T == S \cup {e.target : e \in {f \in EdgeSet : f.source \in S}} IN
  IF T = S THEN S ELSE ReachFrom(T)

Reachable(s, t) == t \in ReachFrom({s})

\* Bellman-Ford: after k rounds d[v] is the least weight of a directed path of
\* at most k edges from the source to v.
RECURSIVE BellmanFord(_, _)
BellmanFord(d, k) ==
  IF k = 0 THEN d
  ELSE BellmanFord(
         [v \in DOMAIN d |->
            LET c == ({d[v]} \cup {d[e.source] + e.weight :
                        e \in {f \in EdgeSet : f.target = v /\ d[f.source] # Infinity}})
                     \ {Infinity}
            IN IF c = {} THEN Infinity ELSE SetMin(c)],
         k - 1)

\* The least total weight of a directed path from s to t (Infinity: none).
ShortestDistance(s, t) ==
  BellmanFord([v \in Nodes |-> IF v = s THEN 0 ELSE Infinity], Cardinality(Nodes))[t]

\* Consecutive nodes of path are joined by an edge in path direction.
FollowsEdges(path) == \A i \in 1..(Len(path) - 1) : HasEdge(path[i], path[i + 1])

\* The total weight of a node path, the lightest edge taken between parallel ones.
RECURSIVE PathWeight(_)
PathWeight(path) ==
  IF Len(path) < 2 THEN 0
  ELSE MinWeight(path[1], path[2]) + PathWeight(Tail(path))

\* ------------------------------------------------------------------ claims

\* C1 (as claimed): dijkstra(graph, startId, endId) terminates with a
\* PathResult for every graph and every pair of ids, an id that is no node of
\* the graph included.
C1_DijkstraAlwaysReturns == op = "dijkstra" => result.returns

\* C2: whenever dijkstra returns found=true, the returned distance is the least
\* total weight over all directed paths from startId to endId.
C2_DistanceIsMinimal ==
  (op = "dijkstra" /\ result.returns /\ result.found)
    => result.distance = ShortestDistance(args[1], args[2])

\* C2 witness: a found result strictly below the weight of an edge that leads
\* straight from startId to endId (the minimum had a heavier competitor).
C2_Witness ==
  /\ op = "dijkstra" /\ result.returns /\ result.found
  /\ \E e \in EdgeSet :
       e.source = args[1] /\ e.target = args[2] /\ result.distance < e.weight

\* C3: whenever dijkstra returns found=true, path starts at startId, ends at
\* endId, every consecutive pair is joined by an edge in path direction and the
\* weights of those edges (the lightest of parallel ones) sum to distance.
C3_PathMatchesDistance ==
  (op = "dijkstra" /\ result.returns /\ result.found)
    => /\ Len(result.path) >= 1
       /\ result.path[1] = args[1]
       /\ result.path[Len(result.path)] = args[2]
       /\ FollowsEdges(result.path)
       /\ PathWeight(result.path) = result.distance

\* C3 witness: a found path of two edges.
C3_Witness ==
  op = "dijkstra" /\ result.returns /\ result.found /\ Len(result.path) = 3

\* C4: for two nodes of the graph, dijkstra returns exactly
\* {found:false, distance:0, path:[]} when no directed path leads from startId
\* to endId and found=true when one does.
C4_FoundIffReachable ==
  (op = "dijkstra" /\ args[1] \in Nodes /\ args[2] \in Nodes)
    => IF Reachable(args[1], args[2])
       THEN result.returns /\ result.found
       ELSE result = PathResult(FALSE, 0, <<>>)

\* C4 witness: endId cannot be reached from startId although an edge leads
\* from endId to startId, and the result is the not-found value.
C4_Witness ==
  /\ op = "dijkstra" /\ args[1] \in Nodes /\ args[2] \in Nodes
  /\ ~Reachable(args[1], args[2]) /\ HasEdge(args[2], args[1])
  /\ result = PathResult(FALSE, 0, <<>>)

\* C5: for every node s of the graph, dijkstra(graph, s, s) returns
\* {found:true, distance:0, path:[s]}.
C5_SourceEqualsTarget ==
  (op = "dijkstra" /\ args[1] \in Nodes /\ args[1] = args[2])
    => result = PathResult(TRUE, 0, <<args[1]>>)

\* C5 witness: the call dijkstra(graph, s, s) on a graph with a cycle of two
\* edges through s.
C5_Witness ==
  /\ op = "dijkstra" /\ args[1] \in Nodes /\ args[1] = args[2]
  /\ \E v \in Nodes \ {args[1]} : HasEdge(args[1], v) /\ HasEdge(v, args[1])
  /\ result = PathResult(TRUE, 0, <<args[1]>>)

\* The graph with its edge list reordered by the permutation p of the indices.
Reordered(p) == [graph EXCEPT !.edges = [x \in DOMAIN graph.edges |-> graph.edges[p[x]]]]

\* C6 (as claimed): for every ordered pair (i, j) of nodes with j reachable
\* from i, floyd(graph).distances[i][j] equals dijkstra(graph, i, j).distance.
C6_FloydAgreesWithDijkstra ==
  op = "floyd"
    => \A i \in Nodes, j \in Nodes :
         dijkstra(graph, i, j).found
           => result.distances[i][j] = dijkstra(graph, i, j).distance

\* C7 (as claimed): floyd initialises the distance of a pair joined by parallel
\* edges to the least of their weights, so that its distances do not depend on
\* the order of the edge list.
C7_FloydTakesLightestParallelEdge ==
  op = "floyd"
    => /\ \A u \in Nodes, v \in Nodes :
            (u # v /\ HasEdge(u, v))
              => FloydInit(graph).distances[u][v] = MinWeight(u, v)
       /\ \A p \in Permutations(DOMAIN graph.edges) :
            floyd(Reordered(p)).distances = result.distances

\* C8 (as claimed): floyd(graph) returns; pairs has exactly one record for
\* every ordered pair (i, j), i # j, with a directed path from i to j, and none
\* for any other pair; each record's path starts at from, ends at to, follows
\* directed edges, and its total weight (the lightest edge between each
\* consecutive pair) equals the record's distance.
C8_FloydPairs ==
  op = "floyd"
    => /\ result.returns
       /\ \A i \in Nodes, j \in Nodes :
            Cardinality({x \in DOMAIN result.pairs :
                           result.pairs[x].from = i /\ result.pairs[x].to = j})
              = IF i # j /\ Reachable(i, j) THEN 1 ELSE 0
       /\ \A x \in DOMAIN result.pairs :
            LET pair == result.pairs[x] IN
            /\ pair.from \in Nodes /\ pair.to \in Nodes
            /\ Len(pair.path) >= 2
            /\ pair.path[1] = pair.from
            /\ pair.path[Len(pair.path)] = pair.to
            /\ FollowsEdges(pair.path)
            /\ pair.distance = PathWeight(pair.path)

\* The indices of the entries of table[s] with destination t.
EntryIndices(table, s, t) == {x \in DOMAIN table[s] : table[s][x].destination = t}

\* C9: every node of the graph has an entry list; for distinct nodes s, t the
\* list of s has an entry with destination t iff dijkstra(graph, s, t).found,
\* at most one, its nextHop is path[1] (0-based) and its distance the distance
\* of that result; no entry has another destination.
C9_RoutingTableMatchesDijkstra ==
  op = "buildRoutingTables"
    => /\ DOMAIN result = Nodes
       /\ \A s \in Nodes :
            /\ \A x \in DOMAIN result[s] : result[s][x].destination \in Nodes \ {s}
            /\ \A t \in Nodes \ {s} :
                 LET found == dijkstra(graph, s, t)
                     at == EntryIndices(result, s, t)
                 IN /\ Cardinality(at) = IF found.found THEN 1 ELSE 0
                    /\ \A x \in at :
                         /\ result[s][x].nextHop = found.path[2]
                         /\ result[s][x].distance = found.distance

\* C9 witness: a table with an empty entry list for one node and, for another,
\* an entry whose next hop is not its destination.
C9_Witness ==
  /\ op = "buildRoutingTables"
  /\ \E s \in Nodes : result[s] = <<>>
  /\ \E s \in Nodes : \E x \in DOMAIN result[s] :
       result[s][x].nextHop # result[s][x].destination

\* C10 (as claimed): for every source and every destination, the datagram
\* route walked hop by hop through buildRoutingTables(graph) is the node
\* sequence of the virtual-circuit route, the empty sequence included.
C10_DatagramEqualsVirtualCircuit ==
  op = "datagram"
    => result = findVirtualCircuitRoute(graph, args[1], args[2])

\* u and v are joined by an edge from u to v or, when the direction is not
\* regarded, by an edge either way.
Adjacent(u, v, directed) == HasEdge(u, v) \/ (~directed /\ HasEdge(v, u))

\* The simple paths (no node twice) that extend path to the node t.
RECURSIVE SimplePathsExt(_, _, _)
SimplePathsExt(path, t, directed) ==
  LET last == path[Len(path)] IN
  IF last = t THEN {path}
  ELSE UNION {SimplePathsExt(Append(path, v), t, directed) :
                v \in {w \in Nodes \ Range(path) : Adjacent(last, w, directed)}}

SimplePaths(s, t, directed) == SimplePathsExt(<<s>>, t, directed)

\* The directed simple paths from s to t of least total weight.
ShortestPaths(s, t) ==
  {p \in SimplePaths(s, t, TRUE) : PathWeight(p) = ShortestDistance(s, t)}

C11_WitnessTable ==
  /\ op = "adaptive" /\ args[3] # buildRoutingTables(graph)
  /\ Len(result.route) = 3

\* The simple paths from s to t of at most maxHops edges.
BoundedSimplePaths(s, t, maxHops, directed) ==
  {p \in SimplePaths(s, t, directed) : Len(p) - 1 <= maxHops}

C12_WitnessScenario ==
  /\ op = "flooding" /\ graph = DefaultGraph
  /\ args = <<"A", "D", DefaultMaxHops>>
  /\ Len(result.routes) = 2

\* C13 (as claimed): no node sequence appears twice in the list
\* findFloodingRoutes returns.
C13_FloodingReturnsNoDuplicates ==
  op = "flooding"
    => \A x \in DOMAIN result.routes, y \in DOMAIN result.routes :
         x # y => result.routes[x] # result.routes[y]

\* The nodes that share an edge with u, in either direction.
UndirectedNeighbors(u) == {v \in Nodes : Adjacent(u, v, FALSE)}

\* C14: findRandomRoute returns, whichever neighbour is chosen at each step,
\* and returns the empty sequence or a sequence that starts at the source,
\* ends at the destination, visits no node twice, has at most as many
\* elements as the graph has nodes and joins consecutive nodes by an edge in
\* either direction; it returns the empty sequence exactly when the walk
\* ended at a node other than the destination with no unvisited neighbour.
C14_RandomRoute ==
  op = "random"
    => LET route == result.route
           walk == result.visitedNodes
           stuck == /\ walk # <<>>
                    /\ walk[Len(walk)] # args[2]
                    /\ UndirectedNeighbors(walk[Len(walk)]) \subseteq Range(walk)
       IN /\ result.returns
          /\ route # <<>>
               => /\ route[1] = args[1]
                  /\ route[Len(route)] = args[2]
                  /\ Cardinality(Range(route)) = Len(route)
                  /\ Len(route) <= Len(graph.nodes)
                  /\ \A x \in 1..(Len(route) - 1) : Adjacent(route[x], route[x + 1], FALSE)
          /\ (route = <<>>) <=> stuck

\* C14 witness: on one graph and pair, one choice of neighbours reaches the
\* destination in two hops; a dead end is reachable by another choice.
C14_Witness ==
  /\ op = "random"
  /\ Len(result.route) = 3
  /\ \E outcome \in findRandomRoute(graph, args[1], args[2], <<>>) : outcome.route = <<>>

\* Following, from the node current, the next hop of the first entry for dest
\* of each table row leads to dest within fuel hops.
RECURSIVE TableLeadsTo(_, _, _, _)
TableLeadsTo(table, current, dest, fuel) ==
  \/ current = dest
  \/ /\ fuel > 0
     /\ current \in DOMAIN table
     /\ \E x \in DOMAIN table[current] :
          /\ table[current][x].destination = dest
          /\ \A y \in 1..(x - 1) : table[current][y].destination # dest
          /\ TableLeadsTo(table, table[current][x].nextHop, dest, fuel - 1)

\* C15 (as claimed): every route-selection function returns; it returns the
\* empty sequence (flooding: the empty list) when the destination cannot be
\* reached from the source, and the table-driven ones when the next hops of
\* the table never lead to the destination.
C15_FailSoft ==
  /\ op \in {"virtual-circuit", "datagram", "fixed", "adaptive", "experience",
             "random", "flooding"}
       => result.returns
  /\ (op \in {"virtual-circuit", "datagram", "fixed"} /\ ~Reachable(args[1], args[2]))
       => result.route = <<>>
  /\ (op \in {"adaptive", "experience"}
        /\ ~TableLeadsTo(args[3], args[1], args[2], Cardinality(DOMAIN args[3]) + 1))
       => result.route = <<>>
  /\ (op = "random" /\ SimplePaths(args[1], args[2], FALSE) = {})
       => result.route = <<>>
  /\ (op = "flooding" /\ SimplePaths(args[1], args[2], FALSE) = {})
       => result.routes = <<>>

\* The records of the history for the packet p of the running batch.
RecordsOf(history, p) ==
  {x \in DOMAIN history : /\ history[x].packetNumber = p.number
                          /\ history[x].startTime = p.startTime
                          /\ history[x].path = p.route}

\* C16 (as claimed): a packet with route [A,B,C,D] whose start time has passed
\* at tick 0 is delivered from tick 30 on and not before, and the history has
\* exactly one record for it once it is delivered.
C16_DeliveredAtTick30 ==
  \A x \in DOMAIN packets :
    (packets[x].route = <<"A", "B", "C", "D">>
       /\ packets[x].startTime = packets[1].startTime)
      => /\ packets[x].status = "delivered" <=> tick >= 30
         /\ Cardinality(RecordsOf(transmissionHistory, packets[x]))
              = IF packets[x].status = "delivered" THEN 1 ELSE 0

\* The place of a status in waiting -> transmitting -> delivered.
StatusRank(status) ==
  CASE status = "waiting" -> 0
    [] status = "transmitting" -> 1
    [] status = "delivered" -> 2

\* The records a step appends to the history.
Appended == SubSeq(transmissionHistory', Len(transmissionHistory) + 1,
                   Len(transmissionHistory'))

\* C17: a tick never moves a packet's status backwards in waiting ->
\* transmitting -> delivered, changes no field of a delivered packet and
\* appends no record for it.
C17_StatusOnlyAdvances ==
  [][Tick =>
       /\ DOMAIN packets' = DOMAIN packets
       /\ \A x \in DOMAIN packets :
            /\ StatusRank(packets'[x].status) >= StatusRank(packets[x].status)
            /\ packets[x].status = "delivered"
                 => /\ packets'[x] = packets[x]
                    /\ RecordsOf(Appended, packets[x]) = {}]_vars

\* C17 witness: a tick is due while one packet is delivered and another is
\* still transmitting.
C17_Witness ==
  /\ isAnimating
  /\ \E x \in DOMAIN packets : packets[x].status = "delivered"
  /\ \E x \in DOMAIN packets : packets[x].status = "transmitting"

\* What a tick at the new clock finds of packet p: it is started and not
\* delivered, and its progress plus the step.
Started(p) == p.status # "delivered" /\ now' >= p.startTime

Sum(p) == DoubleAdd(p.progress, Tenth)

\* The first two cases of C18: the sum reaches 1.
C18_Hops(p, q) ==
  (Started(p) /\ AtLeast(Sum(p), One))
    => IF p.routeIndex = Len(p.route) - 1
       THEN /\ q = [p EXCEPT !.status = "delivered", !.progress = One, !.endTime = now']
            /\ Cardinality(RecordsOf(Appended, p)) = 1
            /\ \A x \in RecordsOf(Appended, p) :
                 /\ Appended[x].packetNumber = p.number
                 /\ Appended[x].path = p.route
                 /\ Appended[x].size = p.size
                 /\ Appended[x].duration = ToFixed1(now' - p.startTime)
       ELSE /\ q.routeIndex = p.routeIndex + 1
            /\ q.progress = Zero
            /\ q.status = "transmitting"
            /\ RecordsOf(Appended, p) = {}

\* C18 (as claimed): on a tick, a started non-delivered packet whose progress
\* plus the step reaches 1 is delivered with progress 1 and one record when
\* routeIndex references the last node, and otherwise moves to the next hop
\* with progress 0, transmitting; if the sum stays below 1, only progress
\* changes, growing by the step.
C18_TickAsClaimed ==
  [][Tick =>
       \A x \in DOMAIN packets :
         /\ C18_Hops(packets[x], packets'[x])
         /\ (Started(packets[x]) /\ ~AtLeast(Sum(packets[x]), One))
              => /\ packets'[x] = [packets[x] EXCEPT !.progress = Sum(packets[x])]
                 /\ RecordsOf(Appended, packets[x]) = {}]_vars

\* C18 (amended): as claimed, but if the sum stays below 1 the progress grows
\* by the step and the status is transmitting, which it becomes on the first
\* tick of a waiting packet; nothing else changes.
C18_Tick ==
  [][Tick =>
       \A x \in DOMAIN packets :
         /\ C18_Hops(packets[x], packets'[x])
         /\ (Started(packets[x]) /\ ~AtLeast(Sum(packets[x]), One))
              => /\ packets'[x] = [packets[x] EXCEPT !.progress = Sum(packets[x]),
                                                     !.status = "transmitting"]
                 /\ RecordsOf(Appended, packets[x]) = {}]_vars

\* C18 witness: a tick is due for two started packets, one about to be
\* delivered from the last node of its route, one about to move to its next
\* hop.
C18_Witness ==
  /\ isAnimating
  /\ \E x \in DOMAIN packets :
       /\ packets[x].status = "transmitting"
       /\ packets[x].routeIndex = Len(packets[x].route) - 1
       /\ AtLeast(Sum(packets[x]), One)
  /\ \E x \in DOMAIN packets :
       /\ packets[x].status = "transmitting"
       /\ packets[x].routeIndex < Len(packets[x].route) - 1
       /\ AtLeast(Sum(packets[x]), One)

\* C19: a tick leaves a packet whose start time is not reached unchanged, and
\* such a packet is waiting with routeIndex 0 and progress 0; the packets of a
\* batch on one route start StaggerMs after one another, so that a packet has
\* not left waiting while the packet before it is waiting.
C19_StartTimes ==
  /\ [][Tick =>
          \A x \in DOMAIN packets :
            now' < packets[x].startTime
              => /\ packets'[x] = packets[x]
                 /\ packets[x].status = "waiting"
                 /\ packets[x].routeIndex = 0
                 /\ packets[x].progress = Zero]_vars
  /\ [](\A x \in DOMAIN packets :
          (x + 1 \in DOMAIN packets /\ packets[x + 1].route = packets[x].route)
            => /\ packets[x + 1].startTime = packets[x].startTime + StaggerMs
               /\ packets[x].status = "waiting" => packets[x + 1].status = "waiting")

\* C19 witness: a tick is due while the second packet of a batch on one route
\* waits for its start time and the first is transmitting.
C19_Witness ==
  /\ isAnimating
  /\ Len(packets) >= 2
  /\ packets[1].route = packets[2].route
  /\ packets[1].status = "transmitting"
  /\ now + TickMs < packets[2].startTime

\* C20: once a batch is started and the interval keeps firing, every packet
\* of it is delivered in the end; the tick that delivers the last one sets
\* isAnimating to false, after which no tick is applied.
C20_BatchCompletes ==
  /\ (isAnimating /\ packets # <<>>)
       ~> (~isAnimating /\ \A x \in DOMAIN packets : packets[x].status = "delivered")
  /\ [][Tick => (isAnimating' <=> \E x \in DOMAIN packets' :
                                    packets'[x].status # "delivered")]_vars
  /\ [](~isAnimating => ~ENABLED Tick)

\* C20 witness: a batch of two packets of which the first is delivered and
\* the second is on its last stretch, the interval still running.
C20_Witness ==
  /\ isAnimating
  /\ Len(packets) = 2
  /\ packets[1].status = "delivered"
  /\ packets[2].status = "transmitting"
  /\ packets[2].routeIndex = Len(packets[2].route) - 1

\* C21 (as claimed): no step other than a reset removes a packet that is
\* waiting or transmitting from the packet list.
C21_PacketsRetained ==
  [][~Reset =>
       \A x \in DOMAIN packets :
         packets[x].status # "delivered"
           => \E y \in DOMAIN packets' :
                /\ packets'[y].number = packets[x].number
                /\ packets'[y].route = packets[x].route
                /\ packets'[y].startTime = packets[x].startTime]_vars

\* The walk along a routing table: from each node to the nextHop of its entry
\* for the destination, at most fuel hops; the empty sequence if the walk
\* does not arrive.
RECURSIVE TableWalk(_, _, _, _)
TableWalk(table, nodeId, destinationId, fuel) ==
  IF nodeId = destinationId THEN <<nodeId>>
  ELSE IF fuel = 0 \/ nodeId \notin DOMAIN table THEN <<>>
  ELSE LET hops == {x \in DOMAIN table[nodeId] :
                      table[nodeId][x].destination = destinationId}
       IN IF hops = {} THEN <<>>
          ELSE LET rest == TableWalk(table, table[nodeId][SetMin(hops)].nextHop,
                                     destinationId, fuel - 1)
               IN IF rest = <<>> THEN <<>> ELSE <<nodeId>> \o rest

\* C22: a batch started with a routing algorithm other than flooding has as
\* many packets as were asked for, and each carries the route of the transport
\* method from source to destination: the path dijkstra finds for
\* virtual-circuit, the walk along the graph's routing table for datagram.
C22_BatchSharesTransportRoute ==
  (op = "handleStartTransmission" /\ result = "Transmission Started"
     /\ args[3] # "flooding")
    => /\ Len(packets) = args[5]
       /\ \A x \in DOMAIN packets :
            packets[x].route =
              IF args[4] = "virtual-circuit"
              THEN dijkstra(graph, args[1], args[2]).path
              ELSE TableWalk(buildRoutingTables(graph), args[1], args[2],
                             Len(graph.nodes))

\* C22 witness: a random-routing batch of two packets over datagram transport
\* on a route of three nodes.
C22_Witness ==
  /\ op = "handleStartTransmission"
  /\ result = "Transmission Started"
  /\ args[3] = "random"
  /\ args[4] = "datagram"
  /\ Len(packets) = 2
  /\ Len(packets[1].route) = 3

\* C23 (as claimed): a flooding batch has min(requested count, number of
\* discovered paths) packets, at least one, the k-th packet carrying the k-th
\* discovered path, and no two packets carry the same path.
C23_FloodingBatch ==
  (op = "handleStartTransmission" /\ result = "Transmission Started"
     /\ args[3] = "flooding")
    => LET discovered == findFloodingRoutes(graph, args[1], args[2], DefaultMaxHops)
       IN /\ Len(packets) = IF args[5] < Len(discovered) THEN args[5]
                            ELSE Len(discovered)
          /\ packets # <<>>
          /\ \A k \in DOMAIN packets : packets[k].route = discovered[k]
          /\ \A j \in DOMAIN packets, k \in DOMAIN packets :
               j # k => packets[j].route # packets[k].route

\* C26 (as claimed): every sequence findFloodingRoutes returns follows the
\* direction of the edges.
C26_FloodingFollowsEdgeDirection ==
  op = "flooding"
    => \A x \in DOMAIN result.routes : FollowsEdges(result.routes[x])

\* C27 (as claimed): a call of handleStartTransmission starts a non-empty
\* batch whenever the destination is reachable from the source by a directed
\* path; it reports that no route was found only when there is no such path,
\* and then leaves packets and history unchanged.
C27_StartsIffReachable ==
  [][op' = "handleStartTransmission"
       => /\ Reachable(args'[1], args'[2])
               => (result' = "Transmission Started" /\ packets' # <<>>)
          /\ result' = "No route found between selected nodes"
               => /\ ~Reachable(args'[1], args'[2])
                  /\ UNCHANGED <<packets, transmissionHistory>>]_vars

C25_PacketInvariant ==
  \A x \in DOMAIN packets :
    LET p == packets[x] IN
    /\ AtLeast(p.progress, Zero)
    /\ AtLeast(One, p.progress)
    /\ 0 <= p.routeIndex
    /\ p.routeIndex <= Len(p.route) - 1
    /\ p.currentNodeId = p.route[p.routeIndex + 1]
    /\ p.progress = One => p.status = "delivered"

\* C25 witness: a delivered packet next to one that has moved along its route
\* and is ten steps into its current stretch.
C25_Witness ==
  /\ \E x \in DOMAIN packets : packets[x].status = "delivered"
  /\ \E x \in DOMAIN packets :
       /\ packets[x].status = "transmitting"
       /\ packets[x].routeIndex >= 1
       /\ AtLeast(DoubleAdd(packets[x].progress, Tenth), One)

\* C28 (as claimed): the packet numbers of the records in the transmission
\* history are pairwise distinct.
C28_RecordNumbersDistinct ==
  \A x \in DOMAIN transmissionHistory, y \in DOMAIN transmissionHistory :
    x # y => transmissionHistory[x].packetNumber # transmissionHistory[y].packetNumber

\* C29: of two consecutive packets of a batch on one route the later one is
\* delivered only when the earlier one is, not at an earlier time, and its
\* TransmissionRecord stands after that of the earlier one in the history.
C29_DeliveredInOrder ==
  \A x \in DOMAIN packets :
    (x + 1 \in DOMAIN packets /\ packets[x + 1].route = packets[x].route
       /\ packets[x + 1].status = "delivered")
      => /\ packets[x].status = "delivered"
         /\ packets[x].number < packets[x + 1].number
         /\ packets[x].endTime <= packets[x + 1].endTime
         /\ RecordsOf(transmissionHistory, packets[x]) # {}
         /\ RecordsOf(transmissionHistory, packets[x + 1]) # {}
         /\ \A i \in RecordsOf(transmissionHistory, packets[x]),
               j \in RecordsOf(transmissionHistory, packets[x + 1]) : i < j

\* C29 witness: after a pause longer than the stagger both packets of a batch
\* on one route were delivered by the same tick.
C29_Witness ==
  /\ Len(packets) = 2
  /\ packets[1].route = packets[2].route
  /\ packets[1].status = "delivered"
  /\ packets[2].status = "delivered"
  /\ packets[1].endTime = packets[2].endTime

\* C29 witness: the first packet of a batch on one route is delivered, the
\* second is not, and the batch is paused.
C29_WitnessPaused ==
  /\ ~isAnimating
  /\ Len(packets) = 2
  /\ packets[1].route = packets[2].route
  /\ packets[1].status = "delivered"
  /\ packets[2].status = "transmitting"

\* C30: while isAnimating is true the packet list is not empty and has a
\* packet that is not delivered; a step that sets isAnimating on the same
\* packets (a resume) is taken only with an undelivered packet; a reset leaves
\* packets, history and highlighted edges empty and isAnimating false.
C30_RunningHasWork ==
  /\ [](isAnimating => /\ packets # <<>>
                       /\ \E x \in DOMAIN packets : packets[x].status # "delivered")
  /\ [][(~isAnimating /\ isAnimating' /\ packets' = packets)
          => \E x \in DOMAIN packets : packets[x].status # "delivered"]_vars
  /\ [][Reset => /\ packets' = <<>>
                 /\ transmissionHistory' = <<>>
                 /\ highlightedEdges' = {}
                 /\ ~isAnimating']_vars

\* C30 witness: a batch of two packets has run to its end; the simulation is
\* not running and every packet is delivered.
C30_Witness ==
  /\ ~isAnimating
  /\ Len(packets) = 2
  /\ \A x \in DOMAIN packets : packets[x].status = "delivered"

\* C30 witness: the state a reset leaves after a batch has run for longer
\* than idle time is followed.
C30_WitnessReset ==
  /\ now > MaxTime
  /\ packets = <<>>
  /\ transmissionHistory = <<>>
  /\ highlightedEdges = {}
  /\ ~isAnimating

====
